---- MODULE Spec2Model ----
(***************************************************************************)
(* A model of pele's rigid-body topology (source/aatopology.cpp):          *)
(* RigidFragment::to_atomistic / transform_grad, RBTopology::to_atomistic, *)
(* transform_gradient, align_angle_axis_vectors, align_all_angle_axis_     *)
(* vectors, align_path and TransformAACluster::rotate.                     *)
(*                                                                         *)
(* Numbers.  The code computes in doubles; the model computes exactly, on  *)
(* an integer grid.  Angles are measured in units of pi/10, so that        *)
(* 2*pi = TwoPi = 20 and a quarter turn is 5.  The angle-axis vectors of   *)
(* the model lie on the directions of Dirs, each of Euclidean length 5,    *)
(* so every norm the code takes a quotient by is an integer and            *)
(* n2 = p * (2*pi / |p|) is exact.  A comparison norm(a) > norm(b) is      *)
(* decided on the squares.  On this grid the only vector whose norm is     *)
(* below the code's 1e-6 threshold is the zero vector.                     *)
(***************************************************************************)
EXTENDS Integers, Sequences, FiniteSets, TLC

VARIABLES
    \* ---- the topology (RBTopology's fields)
    sites,          \* _sites: the rigid fragments, each a sequence of body-frame atom positions
    nonrigid,       \* number_of_non_rigid_atoms()
    natoms_total,   \* _natoms_total: 0 until finalize() has run
    \* ---- one run of align_angle_axis_vectors (and a second run on its result)
    pc_align,       \* "start", "add" (first loop), "sub" (second loop), "done"
    p1, p2in,       \* the arguments
    p2, n2,         \* the locals
    ncall,          \* 1: the first call; 2: the call align(p1, result of the first)
    r1,             \* the first call's result
    trace,          \* what the loops did in this call: "add", "add_tie", "sub", "sub_tie"
    \* ---- one run of align_path
    pc_path,        \* "call", "loop", "done", "crashed"
    path, path0,    \* the caller's arrays now, and as they were at the call
    iter2,          \* position of iter2 in the list (iter1 is the one before)
    \* ---- the last call of to_atomistic / transform_gradient
    op, status,     \* which, and how it ended
    rbcoords, grad, rbgrad, rbgrad0,   \* the caller's arrays after the call; rbgrad before it
    rbcoords0, grad0,                  \* rbcoords and grad before the call
    atomistic, istart,                 \* to_atomistic's result and its write cursor at the end
    \* ---- the last call of TransformAACluster::rotate
    pc_rot,         \* "idle", "returned", "runtime_error", "invalid_argument"
    x, x0, mx       \* the caller's array after and before the call, the matrix

topoVars  == <<sites, nonrigid, natoms_total>>
alignVars == <<pc_align, p1, p2in, p2, n2, ncall, r1, trace>>
pathVars  == <<pc_path, path, path0, iter2>>
callVars  == <<op, status, rbcoords, grad, rbgrad, rbgrad0, rbcoords0, grad0, atomistic, istart>>
rotVars   == <<pc_rot, x, x0, mx>>
vars      == <<topoVars, alignVars, pathVars, callVars, rotVars>>

-----------------------------------------------------------------------------
(* Bounds of the model. *)

\* Angle-axis inputs of align_angle_axis_vectors are k*d, d in Dirs, |k| <= MaxMult.
MaxMult == 4
\* Topologies have at most MaxSites rigid fragments.
MaxSites == 2
\* ... and at most MaxNonRigid non-rigid atoms.
MaxNonRigid == 1
\* Paths given to align_path have at most MaxPath configurations.
MaxPath == 3

(* Program constants, in the model's unit of angle (pi/10). *)

\* 2. * M_PI
TwoPi == 20

\* The loops of align_angle_axis_vectors are unbounded in the code; the model
\* stops a loop after StepCap steps (never reached by the code as written).
StepCap == 2 * MaxMult + 4

-----------------------------------------------------------------------------
(* pele::VecN<3> arithmetic (pele/vecn.h), as the code above uses it. *)

Zero3 == <<0, 0, 0>>

VAdd(a, b) == <<a[1] + b[1], a[2] + b[2], a[3] + b[3]>>

VSub(a, b) == <<a[1] - b[1], a[2] - b[2], a[3] - b[3]>>

VScale(k, a) == <<k * a[1], k * a[2], k * a[3]>>

NormSq(a) == a[1] * a[1] + a[2] * a[2] + a[3] * a[3]

\* norm<3>(a), for the vectors of the grid (whose norms are integers)
Norm(a) == CHOOSE r \in 0..NormSq(a) : r * r <= NormSq(a) /\ (r + 1) * (r + 1) > NormSq(a)

\* norm<3>(a) < 1e-6: 1e-6 rad is less than one unit of the grid
BelowThreshold(a) == NormSq(a) = 0

\* the directions of the grid, each of length 5 (a quarter turn)
Dirs == {<<5, 0, 0>>, <<0, 5, 0>>, <<3, 4, 0>>}

Grid == {VScale(k, d) : k \in -MaxMult..MaxMult, d \in Dirs}

-----------------------------------------------------------------------------
(* RBTopology::align_angle_axis_vectors *)

\* a step always taken from p2, which is no step at all when p2 is near-identity
PeriodStep_ZeroFromP2(q1, q2) ==
    IF BelowThreshold(q2) THEN Zero3
    ELSE <<(q2[1] * TwoPi) \div Norm(q2), (q2[2] * TwoPi) \div Norm(q2),
           (q2[3] * TwoPi) \div Norm(q2)>>

\* lines 154-163: the periodicity step, taken from p1 when p2 is near-identity
PeriodStep(q1, q2) ==
    LET src == IF BelowThreshold(q2) THEN q1 ELSE q2
    IN  <<(src[1] * TwoPi) \div Norm(src), (src[2] * TwoPi) \div Norm(src),
          (src[3] * TwoPi) \div Norm(src)>>

\* a break that does not depend on the distances
LoopBreaks_Always(q1, q, qn) == TRUE

\* lines 168 and 177: if (norm<3>(p2n - p1) > norm<3>(p2 - p1)) break;
LoopBreaks(q1, q, qn) == NormSq(VSub(qn, q1)) > NormSq(VSub(q, q1))

\* a step that leaves the distance to p1 exactly equal
IsTie(q1, q, qn) == NormSq(VSub(qn, q1)) = NormSq(VSub(q, q1))

RECURSIVE AddLoop(_, _, _)
\* lines 165-172
AddLoop(q1, q, step) ==
    LET qn == VAdd(q, step)
    IN  IF LoopBreaks(q1, q, qn) THEN q ELSE AddLoop(q1, qn, step)

RECURSIVE SubLoop(_, _, _)
\* lines 174-181
SubLoop(q1, q, step) ==
    LET qn == VSub(q, step)
    IN  IF LoopBreaks(q1, q, qn) THEN q ELSE SubLoop(q1, qn, step)

\* lines 148-183, as a function
AlignAngleAxisVectors(q1, q2) ==
    IF BelowThreshold(q2) /\ BelowThreshold(q1) THEN q2
    ELSE LET step == PeriodStep(q1, q2)
         IN  SubLoop(q1, AddLoop(q1, q2, step), step)

(* The same function, one statement at a time. *)

\* lines 152-163: entry; both near-identity returns p2 at once
AlignReturnNearIdentity ==
    /\ pc_align = "start"
    /\ BelowThreshold(p2in) /\ BelowThreshold(p1)
    /\ p2' = p2in
    /\ pc_align' = "done"
    /\ r1' = IF ncall = 1 THEN p2in ELSE r1
    /\ UNCHANGED <<p1, p2in, n2, ncall, trace>>
    /\ UNCHANGED <<topoVars, pathVars, callVars, rotVars>>

AlignEnter ==
    /\ pc_align = "start"
    /\ ~(BelowThreshold(p2in) /\ BelowThreshold(p1))
    /\ p2' = p2in
    /\ n2' = PeriodStep(p1, p2in)
    /\ pc_align' = "add"
    /\ UNCHANGED <<p1, p2in, ncall, r1, trace>>
    /\ UNCHANGED <<topoVars, pathVars, callVars, rotVars>>

\* lines 165-172, one iteration that does not break
AddStep ==
    /\ pc_align = "add"
    /\ Len(trace) < StepCap
    /\ ~LoopBreaks(p1, p2, VAdd(p2, n2))
    /\ p2' = VAdd(p2, n2)
    /\ trace' = Append(trace, IF IsTie(p1, p2, VAdd(p2, n2)) THEN "add_tie" ELSE "add")
    /\ UNCHANGED <<pc_align, p1, p2in, n2, ncall, r1>>
    /\ UNCHANGED <<topoVars, pathVars, callVars, rotVars>>

\* line 169: break out of the first loop
AddBreak ==
    /\ pc_align = "add"
    /\ LoopBreaks(p1, p2, VAdd(p2, n2))
    /\ pc_align' = "sub"
    /\ UNCHANGED <<p1, p2in, p2, n2, ncall, r1, trace>>
    /\ UNCHANGED <<topoVars, pathVars, callVars, rotVars>>

\* lines 174-181, one iteration that does not break
SubStep ==
    /\ pc_align = "sub"
    /\ Len(trace) < StepCap
    /\ ~LoopBreaks(p1, p2, VSub(p2, n2))
    /\ p2' = VSub(p2, n2)
    /\ trace' = Append(trace, IF IsTie(p1, p2, VSub(p2, n2)) THEN "sub_tie" ELSE "sub")
    /\ UNCHANGED <<pc_align, p1, p2in, n2, ncall, r1>>
    /\ UNCHANGED <<topoVars, pathVars, callVars, rotVars>>

\* lines 178 and 182: break out of the second loop and return p2
SubBreak ==
    /\ pc_align = "sub"
    /\ LoopBreaks(p1, p2, VSub(p2, n2))
    /\ pc_align' = "done"
    /\ r1' = IF ncall = 1 THEN p2 ELSE r1
    /\ UNCHANGED <<p1, p2in, p2, n2, ncall, trace>>
    /\ UNCHANGED <<topoVars, pathVars, callVars, rotVars>>

\* the caller aligns the result once more against the same p1
AlignAgain ==
    /\ pc_align = "done"
    /\ ncall = 1
    /\ ncall' = 2
    /\ p2in' = p2
    /\ pc_align' = "start"
    /\ trace' = <<>>
    /\ n2' = Zero3
    /\ UNCHANGED <<p1, p2, r1>>
    /\ UNCHANGED <<topoVars, pathVars, callVars, rotVars>>

-----------------------------------------------------------------------------
(* The rotation algebra (pele/rotations.h), on the rotations the model      *)
(* uses: whole numbers of quarter turns about a coordinate axis, where      *)
(* the rotation matrix is an integer matrix.                                *)

Identity3 == <<<<1, 0, 0>>, <<0, 1, 0>>, <<0, 0, 1>>>>

\* cos and sin of k quarter turns
Cos4(k) == <<1, 0, -1, 0>>[(k % 4) + 1]

Sin4(k) == <<0, 1, 0, -1>>[(k % 4) + 1]

\* aa_to_rot_mat(p)
AaToRotMat(p) ==
    IF p[1] # 0 THEN
        LET c == Cos4(p[1] \div 5) s == Sin4(p[1] \div 5)
        IN  <<<<1, 0, 0>>, <<0, c, -s>>, <<0, s, c>>>>
    ELSE IF p[2] # 0 THEN
        LET c == Cos4(p[2] \div 5) s == Sin4(p[2] \div 5)
        IN  <<<<c, 0, s>>, <<0, 1, 0>>, <<-s, 0, c>>>>
    ELSE IF p[3] # 0 THEN
        LET c == Cos4(p[3] \div 5) s == Sin4(p[3] \div 5)
        IN  <<<<c, -s, 0>>, <<s, c, 0>>, <<0, 0, 1>>>>
    ELSE Identity3

MatMul(A, B) ==
    [i \in 1..3 |-> [j \in 1..3 |-> A[i][1] * B[1][j] + A[i][2] * B[2][j] + A[i][3] * B[3][j]]]

\* pele::transpose(mx)
Transpose(A) == [i \in 1..3 |-> [j \in 1..3 |-> A[j][i]]]

\* the generators of the rotations about the three axes
Skew(m) ==
    CASE m = 1 -> <<<<0, 0, 0>>, <<0, 0, -1>>, <<0, 1, 0>>>>
      [] m = 2 -> <<<<0, 0, 1>>, <<0, 0, 0>>, <<-1, 0, 0>>>>
      [] m = 3 -> <<<<0, -1, 0>>, <<1, 0, 0>>, <<0, 0, 0>>>>

\* rot_mat_derivatives(p, rmat, drm1, drm2, drm3): an integer stand-in for the
\* library's three derivative matrices, a fixed function of p (Skew(m) * R(p):
\* the library's value at p = 0 and for the component along the axis of p)
RotMatDerivatives(p) ==
    [rmat |-> AaToRotMat(p),
     drm  |-> [m \in 1..3 |-> MatMul(Skew(m), AaToRotMat(p))]]

\* the representatives rot_mat_to_aa returns: the angle in [0, pi]
CanonAa ==
    {Zero3} \cup {[i \in 1..3 |-> IF i = a THEN 5 * k ELSE 0] : a \in 1..3, k \in {-1, 1, 2}}

\* rot_mat_to_aa(mx)
RotMatToAa(M) == CHOOSE p \in CanonAa : AaToRotMat(p) = M

\* whether rot_mat_to_aa's result is on the grid of the model
Representable(M) == \E p \in CanonAa : AaToRotMat(p) = M

\* rotate_aa(p, dp): the rotation p followed by the rotation dp
RotateAa(p, dp) == RotMatToAa(MatMul(AaToRotMat(dp), AaToRotMat(p)))

-----------------------------------------------------------------------------
(* pele::Array views and the CoordsAdaptor (pele/array.h, pele/aatopology.h). *)
(* Arrays are sequences; the code's indices are 0-based and half-open.        *)

\* a.view(ibegin, iend), read
View(a, ibegin, iend) == SubSeq(a, ibegin + 1, iend)

\* a.view(ibegin, ibegin + Len(vals)).assign(vals), or std::copy into the view:
\* the array written through the view
AssignView(a, ibegin, vals) ==
    [j \in 1..Len(a) |->
        IF j > ibegin /\ j <= ibegin + Len(vals) THEN vals[j - ibegin] ELSE a[j]]

\* CoordsAdaptor::get_rb_positions()
GetRbPositions(nrigid, a) == View(a, 0, 3 * nrigid)

\* CoordsAdaptor::get_rb_rotations()
GetRbRotations(nrigid, a) == View(a, 3 * nrigid, 6 * nrigid)

\* CoordsAdaptor::get_rb_rotation(isite)
GetRbRotation(nrigid, a, isite) == View(a, 3 * nrigid + 3 * isite, 3 * nrigid + 3 * isite + 3)

RECURSIVE SumAtoms(_)
\* the sum of natoms() over the sites
SumAtoms(ss) == IF ss = <<>> THEN 0 ELSE Len(ss[1]) + SumAtoms(Tail(ss))

\* RBTopology::finalize(): the total atom count, non-rigid atoms included
FinalizedTotal(ss, nr) == SumAtoms(ss) + nr

\* the lazy finalize at the head of to_atomistic and transform_gradient
LazyTotal(ss, nr, nat) == IF nat = 0 THEN FinalizedTotal(ss, nr) ELSE nat

-----------------------------------------------------------------------------
(* RigidFragment: a site is the sequence of its body-frame atom positions. *)

\* lines 7-29: com + R(p) * q for every atom q, flattened
RigidFragmentToAtomistic(site, com, p) ==
    LET rmat == AaToRotMat(p)
    IN  [idx \in 1..(3 * Len(site)) |->
            LET atom == ((idx - 1) \div 3) + 1
                j    == ((idx - 1) % 3) + 1
            IN  com[j] + rmat[j][1] * site[atom][1] + rmat[j][2] * site[atom][2]
                       + rmat[j][3] * site[atom][3]]

RECURSIVE GComSum(_, _, _)
\* lines 51-57: the sum over the atoms of component k of g
GComSum(g, natoms, k) ==
    IF natoms = 0 THEN 0 ELSE GComSum(g, natoms - 1, k) + g[3 * (natoms - 1) + k]

\* lines 62-71: one atom's val1, val2, val3
AtomRotTerm(site, g, drm, atom, m) ==
    LET t(i, j) == g[3 * (atom - 1) + i] * drm[m][i][j] * site[atom][j]
    IN  t(1, 1) + t(1, 2) + t(1, 3) + t(2, 1) + t(2, 2) + t(2, 3) + t(3, 1) + t(3, 2) + t(3, 3)

RECURSIVE GRotAccumulate(_, _, _, _, _)
\* lines 61-75: g_rot += (val1, val2, val3) for the atoms in order, from acc
GRotAccumulate(site, g, drm, atom, acc) ==
    IF atom > Len(site) THEN acc
    ELSE GRotAccumulate(site, g, drm, atom + 1,
            <<acc[1] + AtomRotTerm(site, g, drm, atom, 1),
              acc[2] + AtomRotTerm(site, g, drm, atom, 2),
              acc[3] + AtomRotTerm(site, g, drm, atom, 3)>>)

\* a transform_grad that does not reset g_rot before accumulating
RigidFragmentTransformGrad_NoReset(site, p, g, g_com, g_rot) ==
    LET d == RotMatDerivatives(p)
    IN  [g_com |-> <<GComSum(g, Len(site), 1), GComSum(g, Len(site), 2), GComSum(g, Len(site), 3)>>,
         g_rot |-> GRotAccumulate(site, g, d.drm, 1, g_rot)]

\* lines 31-76: g_com and g_rot are the caller's buffers, written in place
RigidFragmentTransformGrad(site, p, g, g_com, g_rot) ==
    LET d == RotMatDerivatives(p)
    IN  [g_com |-> <<GComSum(g, Len(site), 1), GComSum(g, Len(site), 2), GComSum(g, Len(site), 3)>>,
         g_rot |-> GRotAccumulate(site, g, d.drm, 1, Zero3)]

-----------------------------------------------------------------------------
(* RBTopology::to_atomistic and RBTopology::transform_gradient *)

RECURSIVE ToAtomisticLoop(_, _, _, _, _)
\* lines 95-106: the loop over the sites, from site isite with the cursor at cur
ToAtomisticLoop(ss, rb, isite, cur, atm) ==
    IF isite >= Len(ss) THEN [atomistic |-> atm, istart |-> cur]
    ELSE LET nrigid == Len(ss)
             psite  == View(GetRbRotations(nrigid, rb), isite * 3, isite * 3 + 3)
             pos    == RigidFragmentToAtomistic(ss[isite + 1],
                           View(GetRbPositions(nrigid, rb), isite * 3, isite * 3 + 3), psite)
         IN  ToAtomisticLoop(ss, rb, isite + 1, cur + Len(pos), AssignView(atm, cur, pos))

\* lines 84-86
ToAtomisticSizeError(ss, rb) == Len(rb) # Len(ss) * 6

\* size checks that let an rbgrad longer than rbcoords pass
TransformGradientSizeError_ShortOnly(ss, nat, rb, g, rg) ==
    IF Len(rb) # Len(ss) * 6 THEN "rbcoords"
    ELSE IF Len(g) # nat * 3 THEN "grad"
    ELSE IF Len(rg) < Len(rb) THEN "rbgrad"
    ELSE "none"

\* lines 118-126: the first size check that fails, "none" when all pass
TransformGradientSizeError(ss, nat, rb, g, rg) ==
    IF Len(rb) # Len(ss) * 6 THEN "rbcoords"
    ELSE IF Len(g) # nat * 3 THEN "grad"
    ELSE IF Len(rg) # Len(rb) THEN "rbgrad"
    ELSE "none"

RECURSIVE TransformGradientLoop(_, _, _, _, _, _)
\* lines 135-145: the loop over the sites; returns rbgrad as written through
\* the views g_com_site and g_rot_site
TransformGradientLoop(ss, rb, g, rg, isite, cur) ==
    IF isite >= Len(ss) THEN rg
    ELSE LET nrigid    == Len(ss)
             site_ndof == Len(ss[isite + 1]) * 3
             g_site    == View(g, cur, cur + site_ndof)
             p         == View(GetRbRotations(nrigid, rb), isite * 3, isite * 3 + 3)
             g_com_old == View(GetRbPositions(nrigid, rg), isite * 3, isite * 3 + 3)
             g_rot_old == View(GetRbRotations(nrigid, rg), isite * 3, isite * 3 + 3)
             res       == RigidFragmentTransformGrad(ss[isite + 1], p, g_site, g_com_old, g_rot_old)
             rg1       == AssignView(rg, isite * 3, res.g_com)
             rg2       == AssignView(rg1, 3 * nrigid + isite * 3, res.g_rot)
         IN  TransformGradientLoop(ss, rb, g, rg2, isite + 1, cur + site_ndof)

-----------------------------------------------------------------------------
(* The inputs of the model. *)

\* the rigid fragments a topology is built from: no atom, one atom, two atoms
Fragments == {<<>>, <<<<1, 0, 0>>>>, <<<<1, 2, 3>>, <<0, -1, 2>>>>}

Topologies == UNION {[1..n -> Fragments] : n \in 0..MaxSites}

Centers == <<<<0, 0, 0>>, <<1, -2, 3>>>>

\* rotations given to to_atomistic and transform_gradient
RotsAxis == <<<<0, 0, 0>>, <<5, 0, 0>>, <<0, 0, 10>>>>

\* rotations given to rotate
RotsX == <<<<0, 0, 0>>, <<5, 0, 0>>, <<10, 0, 0>>, <<-5, 0, 0>>>>

\* rotations of the configurations of a path
PathRots == <<<<15, 0, 0>>, <<-10, 0, 0>>, <<-5, 0, 0>>, <<0, 0, 0>>, <<6, 8, 0>>>>

\* a packed array: nrigid centers, nrigid rotations, then nr non-rigid atoms;
\* site i takes the (cpat + i)-th center and the (rpat + i)-th rotation of rots
ConfigOf(nrigid, nr, cpat, rpat, rots) ==
    [j \in 1..(6 * nrigid + 3 * nr) |->
        LET i == (j - 1) \div 3
            k == ((j - 1) % 3) + 1
        IN  IF j <= 3 * nrigid THEN Centers[((cpat + i) % 2) + 1][k]
            ELSE IF j <= 6 * nrigid THEN rots[((rpat + i - nrigid) % Len(rots)) + 1][k]
            ELSE 7 + j]

\* an array of the same kind and a wrong length
WrongLength(a) == {Append(a, 0)} \cup (IF Len(a) > 0 THEN {SubSeq(a, 1, Len(a) - 1)} ELSE {})

RbCoordsInputs(nrigid) ==
    {ConfigOf(nrigid, 0, c, r, RotsAxis) : c \in 1..2, r \in 1..3}
        \cup WrongLength(ConfigOf(nrigid, 0, 1, 2, RotsAxis))

GradOf(len, pat) == [j \in 1..len |-> IF pat = 1 THEN j ELSE ((j * j) % 7) - 3]

GradInputs(len) == {GradOf(len, 1), GradOf(len, 2)} \cup WrongLength(GradOf(len, 1))

\* what the caller's output buffer holds before the call
RbGradOf(len, pat) == [j \in 1..len |-> IF pat = 1 THEN 0 ELSE 40 + j]

RbGradInputs(len) == {RbGradOf(len, 1), RbGradOf(len, 2)} \cup WrongLength(RbGradOf(len, 2))

\* what a freshly allocated pele::Array may hold
UninitVals == {0, 77}

MxSet ==
    {AaToRotMat(<<0, 0, 0>>), AaToRotMat(<<5, 0, 0>>), AaToRotMat(<<10, 0, 0>>),
     AaToRotMat(<<-5, 0, 0>>), AaToRotMat(<<0, 0, 5>>)}

-----------------------------------------------------------------------------
(* The topology's operations as actions. *)

NRigid == Len(sites)

\* RBTopology::finalize(), called by the user
Finalize ==
    /\ op = "none"
    /\ natoms_total' = FinalizedTotal(sites, nonrigid)
    /\ UNCHANGED <<sites, nonrigid, callVars>>
    /\ UNCHANGED <<alignVars, pathVars, rotVars>>

\* lines 78-109
ToAtomistic ==
    /\ op = "none"
    /\ UNCHANGED <<alignVars, pathVars, rotVars>>
    /\ \E rb \in RbCoordsInputs(NRigid), fill \in UninitVals :
        LET nat == LazyTotal(sites, nonrigid, natoms_total)
            r   == ToAtomisticLoop(sites, rb, 0, 0, [j \in 1..(3 * nat) |-> fill])
        IN  /\ natoms_total' = nat
            /\ op' = "to_atomistic"
            /\ rbcoords0' = rb /\ rbcoords' = rb
            /\ grad0' = <<>> /\ grad' = <<>> /\ rbgrad0' = <<>> /\ rbgrad' = <<>>
            /\ IF ToAtomisticSizeError(sites, rb)
               THEN /\ status' = "invalid_argument"
                    /\ atomistic' = <<>>
                    /\ istart' = 0
               ELSE /\ atomistic' = r.atomistic
                    /\ istart' = r.istart
                    \* line 107: the assertion aborts a build that keeps assertions
                    /\ status' \in (IF r.istart = nat * 3 THEN {"returned"}
                                    ELSE {"returned", "assert_failed"})
            /\ UNCHANGED <<sites, nonrigid>>

\* lines 111-146
TransformGradient ==
    /\ op = "none"
    /\ UNCHANGED <<alignVars, pathVars, rotVars>>
    /\ \E rb \in RbCoordsInputs(NRigid) :
      \E g \in GradInputs(3 * LazyTotal(sites, nonrigid, natoms_total)) :
        \E rg \in RbGradInputs(6 * NRigid) :
          LET nat == LazyTotal(sites, nonrigid, natoms_total)
              err == TransformGradientSizeError(sites, nat, rb, g, rg)
          IN  /\ natoms_total' = nat
              /\ op' = "transform_gradient"
              /\ rbcoords0' = rb /\ rbcoords' = rb
              /\ grad0' = g /\ grad' = g
              /\ rbgrad0' = rg
              /\ atomistic' = <<>>
              /\ istart' = 0
              /\ IF err # "none"
                 THEN /\ status' = "invalid_argument"
                      /\ rbgrad' = rg
                 ELSE /\ status' = "returned"
                      /\ rbgrad' = TransformGradientLoop(sites, rb, g, rg, 0, 0)
              /\ UNCHANGED <<sites, nonrigid>>

-----------------------------------------------------------------------------
(* RBTopology::align_all_angle_axis_vectors and RBTopology::align_path *)

RECURSIVE AlignAllLoop(_, _, _, _)
\* lines 191-196: x2 as written through the views p2, from site isite on
AlignAllLoop(nrigid, x1, x2, isite) ==
    IF isite >= nrigid THEN x2
    ELSE LET q1    == GetRbRotation(nrigid, x1, isite)
             q2    == GetRbRotation(nrigid, x2, isite)
             p2new == AlignAngleAxisVectors(q1, q2)
         IN  AlignAllLoop(nrigid, x1, AssignView(x2, 3 * nrigid + 3 * isite, p2new), isite + 1)

\* lines 185-197
AlignAllAngleAxisVectors(nrigid, x1, x2) == AlignAllLoop(nrigid, x1, x2, 0)

\* the paths the caller passes: up to MaxPath configurations of the topology
PathInputs ==
    UNION {[1..len -> {ConfigOf(NRigid, nonrigid, c, r, PathRots) : c \in 1..1, r \in 1..Len(PathRots)}]
              : len \in 0..MaxPath}

\* lines 202-204.  The list holds pele::Arrays, whose copies share their data, so
\* the list's elements are the caller's arrays.  On an empty list iter2++ steps
\* past end(): undefined; a list whose sentinel links to itself leaves iter2 at
\* end(), a checked iterator aborts.
AlignPathCall ==
    /\ pc_path = "call"
    /\ \E pth \in PathInputs :
        /\ path' = pth
        /\ path0' = pth
        /\ IF Len(pth) = 0
           THEN /\ pc_path' \in {"loop", "crashed"}
                /\ iter2' = 1
           ELSE /\ pc_path' = "loop"
                /\ iter2' = 2
    /\ UNCHANGED <<topoVars, alignVars, callVars, rotVars>>

\* lines 205-209, one iteration
AlignPathIter ==
    /\ pc_path = "loop"
    /\ iter2 <= Len(path)
    /\ path' = [path EXCEPT ![iter2] = AlignAllAngleAxisVectors(NRigid, path[iter2 - 1], path[iter2])]
    /\ iter2' = iter2 + 1
    /\ UNCHANGED <<pc_path, path0>>
    /\ UNCHANGED <<topoVars, alignVars, callVars, rotVars>>

\* line 205: iter2 == path.end(); line 210
AlignPathReturn ==
    /\ pc_path = "loop"
    /\ iter2 = Len(path) + 1
    /\ pc_path' = "done"
    /\ UNCHANGED <<path, path0, iter2>>
    /\ UNCHANGED <<topoVars, alignVars, callVars, rotVars>>

-----------------------------------------------------------------------------
(* TransformAACluster::rotate *)

\* hacky_mat_mul(rb_pos, mxT_view): the nrigid x 3 matrix a times the 3 x 3 matrix B
HackyMatMul(a, B) ==
    [idx \in 1..Len(a) |->
        LET i == (idx - 1) \div 3
            j == ((idx - 1) % 3) + 1
        IN  a[3 * i + 1] * B[1][j] + a[3 * i + 2] * B[2][j] + a[3 * i + 3] * B[3][j]]

RECURSIVE RotateRotationsLoop(_, _, _, _)
\* lines 233-238: the array as written through the views pview
RotateRotationsLoop(nrigid, a, dp, isite) ==
    IF isite >= nrigid THEN a
    ELSE LET pview == GetRbRotation(nrigid, a, isite)
             p     == RotateAa(pview, dp)
         IN  RotateRotationsLoop(nrigid, AssignView(a, 3 * nrigid + 3 * isite, p), dp, isite + 1)

\* lines 217-239: the rigid-body update
RotateRigid(nrigid, xin, m) ==
    IF nrigid > 0
    THEN LET result == HackyMatMul(GetRbPositions(nrigid, xin), Transpose(m))
             moved  == AssignView(xin, 0, result)
         IN  RotateRotationsLoop(nrigid, moved, RotMatToAa(m), 0)
    ELSE xin

\* a rotate that refuses non-rigid atoms before it updates anything
RotateCall_CheckFirst(nrigid, nr, xin, m) ==
    IF nr > 0 THEN [x |-> xin, status |-> "runtime_error"]
    ELSE [x |-> RotateRigid(nrigid, xin, m), status |-> "returned"]

\* a rotate that checks for non-rigid atoms inside the nrigid > 0 branch
RotateCall_CheckInBranch(nrigid, nr, xin, m) ==
    [x      |-> RotateRigid(nrigid, xin, m),
     status |-> IF nrigid > 0 /\ nr > 0 THEN "runtime_error" ELSE "returned"]

\* lines 212-244: the caller's array after the call, and how the call ended
RotateCall(nrigid, nr, xin, m) ==
    [x      |-> RotateRigid(nrigid, xin, m),
     status |-> IF nr > 0 THEN "runtime_error" ELSE "returned"]

\* the rotations the model's rotation algebra can compose with m
Composable(nrigid, xin, m) ==
    /\ Representable(m)
    /\ \A i \in 0..(nrigid - 1) :
          Representable(MatMul(AaToRotMat(RotMatToAa(m)), AaToRotMat(GetRbRotation(nrigid, xin, i))))

\* the configurations of the topology given to rotate
RotateInputs == {ConfigOf(NRigid, nonrigid, c, r, RotsX) : c \in 1..2, r \in 1..Len(RotsX)}

Rotate ==
    /\ pc_rot = "idle"
    /\ UNCHANGED <<topoVars, alignVars, pathVars, callVars>>
    /\ \E xin \in RotateInputs, m \in MxSet :
        /\ Composable(NRigid, xin, m)
        /\ x0' = xin
        /\ mx' = m
        /\ x' = RotateCall(NRigid, nonrigid, xin, m).x
        /\ pc_rot' = RotateCall(NRigid, nonrigid, xin, m).status

-----------------------------------------------------------------------------
(* Specifications: one per group of operations; the other groups stay idle. *)

TopoInit ==
    /\ sites \in Topologies
    /\ nonrigid \in 0..MaxNonRigid
    /\ natoms_total \in {0, FinalizedTotal(sites, nonrigid)}

\* topologies told apart only by their counts: one-atom fragments
ShapeInit ==
    /\ sites \in {[i \in 1..n |-> <<<<1, 0, 0>>>>] : n \in 0..MaxSites}
    /\ nonrigid \in 0..MaxNonRigid
    /\ natoms_total \in {0, FinalizedTotal(sites, nonrigid)}

AlignIdle ==
    /\ pc_align = "idle" /\ p1 = Zero3 /\ p2in = Zero3 /\ p2 = Zero3 /\ n2 = Zero3
    /\ ncall = 0 /\ r1 = Zero3 /\ trace = <<>>

PathIdle == pc_path = "idle" /\ path = <<>> /\ path0 = <<>> /\ iter2 = 0

CallIdle ==
    /\ op = "none" /\ status = "none"
    /\ rbcoords = <<>> /\ grad = <<>> /\ rbgrad = <<>> /\ rbgrad0 = <<>>
    /\ rbcoords0 = <<>> /\ grad0 = <<>> /\ atomistic = <<>> /\ istart = 0

RotIdle == pc_rot = "idle" /\ x = <<>> /\ x0 = <<>> /\ mx = Identity3

NoTopology == sites = <<>> /\ nonrigid = 0 /\ natoms_total = 0

\* ---- align_angle_axis_vectors, called on p1, p2 and then on p1, result
InitAlign ==
    /\ NoTopology /\ PathIdle /\ CallIdle /\ RotIdle
    /\ pc_align = "start"
    /\ p1 \in Grid /\ p2in \in Grid
    /\ p2 = Zero3 /\ n2 = Zero3 /\ ncall = 1 /\ r1 = Zero3 /\ trace = <<>>

NextAlign ==
    \/ AlignReturnNearIdentity
    \/ AlignEnter
    \/ AddStep
    \/ AddBreak
    \/ SubStep
    \/ SubBreak
    \/ AlignAgain

SpecAlign == InitAlign /\ [][NextAlign]_vars

\* the function runs to its end once called: every enabled statement is executed
FairSpecAlign == InitAlign /\ [][NextAlign]_vars /\ WF_vars(NextAlign)

\* ---- align_path
InitPath ==
    /\ ShapeInit /\ AlignIdle /\ CallIdle /\ RotIdle
    /\ pc_path = "call" /\ path = <<>> /\ path0 = <<>> /\ iter2 = 0

NextPath ==
    \/ AlignPathCall
    \/ AlignPathIter
    \/ AlignPathReturn

SpecPath == InitPath /\ [][NextPath]_vars

\* ---- finalize, to_atomistic, transform_gradient
InitTopology == TopoInit /\ AlignIdle /\ PathIdle /\ CallIdle /\ RotIdle

NextTopology ==
    \/ Finalize
    \/ ToAtomistic
    \/ TransformGradient

SpecTopology == InitTopology /\ [][NextTopology]_vars

\* ---- TransformAACluster::rotate
InitRotate == ShapeInit /\ AlignIdle /\ PathIdle /\ CallIdle /\ RotIdle

NextRotate == Rotate

SpecRotate == InitRotate /\ [][NextRotate]_vars

-----------------------------------------------------------------------------
(* Properties.  Helpers first. *)

RECURSIVE SeqSumTo(_, _)
\* f[1] + ... + f[n]
SeqSumTo(f, n) == IF n = 0 THEN 0 ELSE f[n] + SeqSumTo(f, n - 1)

\* where site i's block starts in an atomistic array (i counted from 0)
BlockStart(i) == 3 * SumAtoms(SubSeq(sites, 1, i))

\* slot i of the center block and of the rotation block of a packed array
CenterSlot(a, i) == <<a[3 * i + 1], a[3 * i + 2], a[3 * i + 3]>>

RotationSlot(a, i) ==
    <<a[3 * NRigid + 3 * i + 1], a[3 * NRigid + 3 * i + 2], a[3 * NRigid + 3 * i + 3]>>

\* the call had an argument of a wrong length
WrongLengthCall ==
    \/ /\ op = "to_atomistic"
       /\ Len(rbcoords0) # 6 * NRigid
    \/ /\ op = "transform_gradient"
       /\ \/ Len(rbcoords0) # 6 * NRigid
          \/ Len(grad0) # 3 * natoms_total
          \/ Len(rbgrad0) # Len(rbcoords0)

\* C1: a call of to_atomistic or transform_gradient with an argument of a wrong
\* length ends in the invalid-argument failure, and the caller's arrays rbcoords,
\* grad and rbgrad hold after the call what they held before it.
C1_WrongLengthFailsUnwritten ==
    WrongLengthCall =>
        /\ status = "invalid_argument"
        /\ rbcoords = rbcoords0
        /\ grad = grad0
        /\ rbgrad = rbgrad0

\* a transform_gradient whose only wrong argument is an rbgrad holding old values
C1_Witness ==
    /\ op = "transform_gradient"
    /\ NRigid = 2
    /\ Len(rbcoords0) = 6 * NRigid
    /\ Len(grad0) = 3 * natoms_total
    /\ Len(rbgrad0) = Len(rbcoords0) + 1
    /\ rbgrad0[1] = 41
    /\ status = "invalid_argument"

RECURSIVE ConcatSites(_)
\* site[i].to_atomistic(center_i, rotation_i) for the sites from i on, concatenated
ConcatSites(i) ==
    IF i >= NRigid THEN <<>>
    ELSE [j \in 1..(3 * Len(sites[i + 1])) |->
             RigidFragmentToAtomistic(sites[i + 1], CenterSlot(rbcoords0, i),
                                      RotationSlot(rbcoords0, i))[j]]
         \o ConcatSites(i + 1)

\* C2: for every topology and every rbcoords of length 6*nrigid, finalized before
\* or not, to_atomistic returns an array of length 3*natoms_total that is the
\* concatenation in site order of the sites' own to_atomistic results, and the
\* write cursor ends at 3*natoms_total (the assertion of line 107 holds).
C2_ToAtomisticIsConcatenation ==
    (op = "to_atomistic" /\ Len(rbcoords0) = 6 * NRigid) =>
        /\ status = "returned"
        /\ natoms_total = FinalizedTotal(sites, nonrigid)
        /\ Len(atomistic) = 3 * natoms_total
        /\ istart = 3 * natoms_total
        /\ atomistic = ConcatSites(0)

\* C3: unless p1 and p2 are both near-identity, the result of
\* align_angle_axis_vectors(p1, p2) is p2 + k*n2 for an integer k, where n2 has
\* length 2*pi and the direction of p2 (of p1 when |p2| is below the threshold),
\* and no p2 + j*n2 is closer to p1; in particular p2 itself is not.
C3_ClosestRepresentative ==
    (pc_align = "done" /\ ~(BelowThreshold(p1) /\ BelowThreshold(p2in))) =>
        LET src == IF BelowThreshold(p2in) THEN p1 ELSE p2in
        IN  /\ NormSq(n2) = TwoPi * TwoPi
            /\ VScale(Norm(src), n2) = VScale(TwoPi, src)
            /\ \E k \in -StepCap..StepCap : p2 = VAdd(p2in, VScale(k, n2))
            /\ \A j \in -StepCap..StepCap :
                   NormSq(VSub(p2, p1)) <= NormSq(VSub(VAdd(p2in, VScale(j, n2)), p1))
            /\ NormSq(VSub(p2, p1)) <= NormSq(VSub(p2in, p1))

\* a result two periods away from the argument
C3_Witness ==
    /\ pc_align = "done"
    /\ ncall = 1
    /\ ~BelowThreshold(p2in)
    /\ p2 = VSub(p2in, VScale(2, n2))

\* C4: align_angle_axis_vectors is idempotent in its second argument: with
\* r = align(p1, p2), align(p1, r) = r, ties and a result opposite to p2 included.
C4_Idempotent == (pc_align = "done" /\ ncall = 2) => p2 = r1

C6_GradientOverwritten ==
    (op = "transform_gradient" /\ status = "returned") =>
        /\ Len(rbgrad) = 6 * NRigid
        /\ rbcoords = rbcoords0
        /\ grad = grad0
        /\ \A i \in 0..(NRigid - 1) : \A k \in 1..3 :
              LET site == sites[i + 1]
                  drm  == RotMatDerivatives(RotationSlot(rbcoords0, i)).drm
                  g(a, c) == grad0[BlockStart(i) + 3 * (a - 1) + c]
              IN  /\ rbgrad[3 * i + k] = SeqSumTo([a \in 1..Len(site) |-> g(a, k)], Len(site))
                  /\ rbgrad[3 * NRigid + 3 * i + k] =
                        SeqSumTo([a \in 1..Len(site) |->
                            SeqSumTo([c \in 1..3 |->
                                SeqSumTo([d \in 1..3 |-> g(a, c) * drm[k][c][d] * site[a][d]], 3)],
                              3)],
                          Len(site))

\* two sites, the second behind a two-atom block, an output buffer holding old values
C6_Witness ==
    /\ op = "transform_gradient"
    /\ status = "returned"
    /\ NRigid = 2
    /\ Len(sites[1]) = 2
    /\ Len(sites[2]) = 2
    /\ rbgrad0[1] = 41
    /\ RotationSlot(rbcoords0, 1) # Zero3
    /\ \A j \in 1..Len(rbgrad) : rbgrad[j] # rbgrad0[j]

\* C7: the add phase takes p2 + n2 only when that strictly decreases the distance
\* to p1 (a step that leaves it equal is not taken), the subtract phase likewise
\* with p2 - n2, and no addition follows the first subtraction.
C7_StrictSteps ==
    [][/\ (pc_align = "add" /\ p2' # p2) =>
              /\ p2' = VAdd(p2, n2)
              /\ NormSq(VSub(p2', p1)) < NormSq(VSub(p2, p1))
       /\ (pc_align = "sub" /\ p2' # p2) =>
              /\ p2' = VSub(p2, n2)
              /\ NormSq(VSub(p2', p1)) < NormSq(VSub(p2, p1))
       /\ (pc_align = "sub") => (pc_align' \in {"sub", "done"})]_vars

\* the rotation block of cur aligned site by site against that of prev
AlignedAgainst(prev, cur) ==
    [j \in 1..Len(cur) |->
        IF j > 3 * NRigid /\ j <= 6 * NRigid
        THEN LET i == (j - 3 * NRigid - 1) \div 3
                 k == ((j - 1) % 3) + 1
             IN  AlignAngleAxisVectors(RotationSlot(prev, i), RotationSlot(cur, i))[k]
        ELSE cur[j]]

RECURSIVE ForwardPass(_)
\* configuration k of the path after one forward pass over path0
ForwardPass(k) ==
    IF k = 1 THEN path0[1] ELSE AlignedAgainst(ForwardPass(k - 1), path0[k])

\* C8: align_path returns, having left configuration 0 as it was and made every
\* later configuration's rotations the alignment of its original rotations against
\* those of its already aligned predecessor, centers untouched, in the caller's
\* arrays; a path of length 0 or 1 is left unchanged and the call returns.
C8_ForwardPass ==
    (pc_path \in {"done", "crashed"}) =>
        /\ pc_path = "done"
        /\ Len(path) = Len(path0)
        /\ \A k \in 1..Len(path0) : path[k] = ForwardPass(k)

\* C9: when rotate raises the runtime error on a topology with rigid bodies, x
\* already holds center_block * transpose(mx) and every site's rotation composed
\* with mx (the non-rigid part as it was); with nrigid = 0, x is unchanged.
C9_UpdateBeforeError ==
    (pc_rot = "runtime_error") =>
        IF NRigid > 0
        THEN /\ Len(x) = Len(x0)
             /\ \A i \in 0..(NRigid - 1) : \A j \in 1..3 :
                   /\ x[3 * i + j] = x0[3 * i + 1] * mx[j][1] + x0[3 * i + 2] * mx[j][2]
                                       + x0[3 * i + 3] * mx[j][3]
                   /\ AaToRotMat(RotationSlot(x, i)) =
                          MatMul(mx, AaToRotMat(RotationSlot(x0, i)))
                   /\ RotationSlot(x, i) \in CanonAa
             /\ \A j \in (6 * NRigid + 1)..Len(x0) : x[j] = x0[j]
        ELSE x = x0

\* the error raised after both blocks of x have changed
C9_Witness ==
    /\ pc_rot = "runtime_error"
    /\ NRigid = 2
    /\ \E j \in 1..(3 * NRigid) : x[j] # x0[j]
    /\ \E j \in (3 * NRigid + 1)..(6 * NRigid) : x[j] # x0[j]

\* how often a loop took a step that left the distance equal
Ties(kind) == Cardinality({j \in 1..Len(trace) : trace[j] = kind})

====
